---- MODULE Spec2Model ----
(***************************************************************************)
(* The font face query contract of go-text/font.                           *)
(*                                                                         *)
(* The package declares interfaces (font.Face = FaceMetrics + FaceRenderer,*)
(* opentype.FaceOpentype) and value types; it holds no method bodies.  The *)
(* model therefore follows, method by method, the contract written on each *)
(* interface method in src/face.go and src/unnamed/part_000.  A face is    *)
(* the static data a font file provides; a call is one action, which       *)
(* records its arguments in `call` and what it returns in `result`.  Where *)
(* the documented contract leaves the outcome open, the action draws it    *)
(* from the set of outcomes the contract admits.                           *)
(*                                                                         *)
(* float32 metrics are modelled as integers in font units; normalized      *)
(* variation coordinates are fixed-point integers with Unit standing for   *)
(* 1.0.                                                                    *)
(***************************************************************************)
EXTENDS Integers, Sequences, FiniteSets

VARIABLES face, call, result

vars == <<face, call, result>>

\* ------------------------------------------------------------------ bounds

\* Largest number of glyphs of a modelled face.
MaxGlyphs == 2

\* Largest number of variation axes of a modelled face.
MaxAxes == 2

\* Largest length of the varCoords a caller passes to a metrics query.
MaxCoords == 1

\* Largest design-space value of an axis (design values are 0..MaxDesign).
MaxDesign == 3

\* Fixed-point representation of the normalized coordinate 1.0.
Unit == 4

\* ------------------------------------------------------- program constants

\* face.go:27  "If not found, should return 1000 as fallback value."
FallbackUpem == 1000

\* -------------------------------------------------------------- value types

\* type GID uint32: the glyph ids a caller may pass; MaxGlyphs itself is
\* outside the glyph range of every modelled face.
GID == 0 .. MaxGlyphs

\* An optional datum of the font file: present with a value, or absent.
Some(v) == [found |-> TRUE, value |-> v]

None == [found |-> FALSE, value |-> 0]

Abs(x) == IF x < 0 THEN 0 - x ELSE x

\* type FontExtents / GlyphExtents are records of float32; GlyphExtents zero
\* value is what a Go function returns next to found = false.
GlyphExtentsOf(xb, yb, w, h) == [XBearing |-> xb, YBearing |-> yb, Width |-> w, Height |-> h]

ZeroGlyphExtents == GlyphExtentsOf(0, 0, 0, 0)

\* An absent layout table: the Go zero value of the table struct.
Nil == "nil"

\* The tables of the advanced layout set, by tag.
LayoutTags == {"GDEF", "trak", "ankr", "feat", "morx", "kern", "kerx", "GSUB", "GPOS"}

\* ----------------------------------------------------------------- the face

\* A face without any optional datum: one glyph, no explicit upem, no
\* names, font extents, advances or origins, no axes, no cmap entry, no
\* glyph data, no layout table.
BaseFace ==
    [ upem       |-> None,
      numGlyphs  |-> 1,
      names      |-> [g \in {0} |-> None],
      hExtents   |-> None,
      vExtents   |-> None,
      hOrigin    |-> [g \in {0} |-> None],
      vOrigin    |-> [g \in {0} |-> None],
      hAdvance   |-> [g \in {0} |-> None],
      vAdvance   |-> [g \in {0} |-> None],
      hDefault   |-> FallbackUpem,
      vDefault   |-> FallbackUpem,
      axes       |-> << >>,
      cmap       |-> << >>,
      glyphs     |-> [g \in {0} |-> [kind |-> "none", strikes |-> {}]],
      tables     |-> {},
      graphite   |-> FALSE,
      graphiteDisabled |-> FALSE ]

\* The glyph index is valid for the face.
ValidGlyph(f, glyph) == glyph >= 0 /\ glyph < f.numGlyphs

\* The face is a variable font: it has at least one variation axis.
IsVariable(f) == Len(f.axes) > 0

\* ------------------------------------------------------------ FaceMetrics

\* A plausible slip: the uint16 zero value is returned when the font file
\* holds no units-per-em.
UpemZeroFallback(f) == IF f.upem.found THEN f.upem.value ELSE 0

\* Upem() uint16
Upem(f) == IF f.upem.found THEN f.upem.value ELSE FallbackUpem

\* Normalized coordinates a caller may pass as varCoords: one fixed-point
\* value per entry, any length up to MaxCoords (so also a wrong axis count).
NormValues == {0 - Unit, 0, Unit}

VarCoords == UNION {[1 .. n -> NormValues] : n \in 0 .. MaxCoords}

\* The coordinates select the default instance of the font.
AtDefault(varCoords) == \A i \in 1 .. Len(varCoords) : varCoords[i] = 0

\* What the variation data of a variable font may add to a stored metric:
\* nothing at the default instance, otherwise a delta the external
\* variation tables decide.
VarDeltas(f, varCoords) ==
    IF IsVariable(f) /\ ~AtDefault(varCoords) THEN {0 - 10, 0, 10} ELSE {0}

\* The advance of `glyph` given the stored advances and the face's default:
\* 0 for an invalid glyph, the default when no data is available, else the
\* stored advance with the variation applied.  The result is the set of
\* values the call may return.
Advance(f, table, default, glyph, varCoords) ==
    IF ~ValidGlyph(f, glyph) THEN {0}
    ELSE IF ~table[glyph].found THEN {default}
    ELSE {table[glyph].value + d : d \in VarDeltas(f, varCoords)}

\* A plausible slip: the glyph index is not checked before the default is
\* applied, so an invalid glyph gets the default advance.
HorizontalAdvanceNoRangeCheck(f, glyph, varCoords) ==
    IF ValidGlyph(f, glyph) /\ f.hAdvance[glyph].found
    THEN {f.hAdvance[glyph].value + d : d \in VarDeltas(f, varCoords)}
    ELSE {f.hDefault}

\* HorizontalAdvance(glyph GID, varCoords []float32) float32
HorizontalAdvance(f, glyph, varCoords) ==
    Advance(f, f.hAdvance, f.hDefault, glyph, varCoords)

\* VerticalAdvance(glyph GID, varCoords []float32) float32
VerticalAdvance(f, glyph, varCoords) ==
    Advance(f, f.vAdvance, f.vDefault, glyph, varCoords)

\* ------------------------------------------------- metrics: faces and calls

\* Explicit units-per-em values of the modelled font files.
UpemValues == {1000, 2048}

\* Stored advances of the modelled font files.
AdvanceValues == {600}

\* The default advance a face uses for a valid glyph without data.  The
\* interface asks for "a default value (the upem number for example)": the
\* upem is one choice, half an em another for horizontal text, the negated
\* em (a downward advance in a Y-up system) another for vertical text.
HDefaultAdvances(u) == {u, u \div 2}

VDefaultAdvances(u) == {u, 0 - u}

Optional(S) == {None} \cup {Some(v) : v \in S}

\* A non-degenerate axis spanning the design range.
FullAxis == [min |-> 0, def |-> 1, max |-> MaxDesign]

\* A face of n glyphs none of which has outline or bitmap data.
NoGlyphData(n) == [g \in 0 .. n - 1 |-> [kind |-> "none", strikes |-> {}]]

NoCall == [op |-> "none"]

NoResult == [value |-> 0]

\* Faces that differ in their metrics data; nothing has been called.
InitMetrics ==
    /\ \E u \in Optional(UpemValues), n \in 1 .. MaxGlyphs, ax \in {<< >>, <<FullAxis>>} :
         \E h \in [0 .. n - 1 -> Optional(AdvanceValues)],
            v \in [0 .. n - 1 -> Optional(AdvanceValues)],
            hd \in HDefaultAdvances(IF u.found THEN u.value ELSE FallbackUpem),
            vd \in VDefaultAdvances(IF u.found THEN u.value ELSE FallbackUpem) :
              face = [BaseFace EXCEPT !.upem = u, !.numGlyphs = n, !.axes = ax,
                                      !.hAdvance = h, !.vAdvance = v,
                                      !.hDefault = hd, !.vDefault = vd,
                                      !.names = [g \in 0 .. n - 1 |-> None],
                                      !.hOrigin = [g \in 0 .. n - 1 |-> None],
                                      !.vOrigin = [g \in 0 .. n - 1 |-> None],
                                      !.glyphs = NoGlyphData(n)]
    /\ call = NoCall
    /\ result = NoResult

\* The caller takes the returned value; the face is ready for the next call.
Return ==
    /\ call # NoCall
    /\ call' = NoCall
    /\ result' = NoResult
    /\ UNCHANGED face

CallUpem ==
    /\ call = NoCall
    /\ call' = [op |-> "Upem"]
    /\ result' = [value |-> Upem(face)]
    /\ UNCHANGED face

CallHorizontalAdvance ==
    /\ call = NoCall
    /\ \E glyph \in GID, varCoords \in VarCoords :
         \E a \in HorizontalAdvance(face, glyph, varCoords) :
            /\ call' = [op |-> "HorizontalAdvance", glyph |-> glyph, varCoords |-> varCoords]
            /\ result' = [value |-> a]
    /\ UNCHANGED face

CallVerticalAdvance ==
    /\ call = NoCall
    /\ \E glyph \in GID, varCoords \in VarCoords :
         \E a \in VerticalAdvance(face, glyph, varCoords) :
            /\ call' = [op |-> "VerticalAdvance", glyph |-> glyph, varCoords |-> varCoords]
            /\ result' = [value |-> a]
    /\ UNCHANGED face

NextMetrics ==
    \/ CallUpem
    \/ CallHorizontalAdvance
    \/ CallVerticalAdvance
    \/ Return

SpecMetrics == InitMetrics /\ [][NextMetrics]_vars

\* ------------------------------------------------- NormalizeVariations

\* A plausible slip: the value is scaled by the whole axis range instead
\* of the half range on its side of the default.
NormalizeAxisWholeRange(a, v) ==
    IF v = a.def THEN 0
    ELSE IF v < a.def THEN 0 - (((a.def - v) * Unit) \div (a.max - a.min))
    ELSE ((v - a.def) * Unit) \div (a.max - a.min)

\* One axis: the design value v of axis a in normalized, fixed-point form.
\* The default maps to 0; [min, default] maps onto [-1, 0] and
\* [default, max] onto [0, 1].
NormalizeAxis(a, v) ==
    IF v = a.def THEN 0
    ELSE IF v < a.def THEN 0 - (((a.def - v) * Unit) \div (a.def - a.min))
    ELSE ((v - a.def) * Unit) \div (a.max - a.def)

\* A plausible slip: the no-op for non-variable fonts is written as
\* "return nothing", dropping the caller's coordinates.
NormalizeVariationsDropsInput(f, varCoords) ==
    IF ~IsVariable(f) THEN << >>
    ELSE [i \in 1 .. Len(varCoords) |-> NormalizeAxis(f.axes[i], varCoords[i])]

\* NormalizeVariations(varCoords []float32) []float32
\* A no-op for a non-variable font; otherwise each design-space coordinate
\* is normalized against its axis.
NormalizeVariations(f, varCoords) ==
    IF ~IsVariable(f) THEN varCoords
    ELSE [i \in 1 .. Len(varCoords) |-> NormalizeAxis(f.axes[i], varCoords[i])]

\* ---------------------------------------------- variations: faces and calls

DesignValues == 0 .. MaxDesign

\* The axes a font file may declare: a range min < max with the default
\* in it, min <= default <= max.
Axes == {[min |-> lo, def |-> d, max |-> hi] : lo \in DesignValues, d \in DesignValues, hi \in DesignValues}

ValidAxis(a) == a.min < a.max /\ a.min <= a.def /\ a.def <= a.max

\* Design-space coordinates a caller may pass.
DesignCoords == UNION {[1 .. n -> DesignValues] : n \in 0 .. MaxAxes}

\* The coordinates are in the domain the interface defines the mapping on:
\* one value per axis, each within its axis's [min, max].
InAxisRange(f, varCoords) ==
    /\ Len(varCoords) = Len(f.axes)
    /\ \A i \in 1 .. Len(varCoords) :
         f.axes[i].min <= varCoords[i] /\ varCoords[i] <= f.axes[i].max

\* Faces that differ in their variation axes; nothing has been called.
InitVariations ==
    /\ \E n \in 0 .. MaxAxes :
         \E ax \in [1 .. n -> Axes] :
            /\ \A i \in 1 .. n : ValidAxis(ax[i])
            /\ face = [BaseFace EXCEPT !.axes = ax]
    /\ call = NoCall
    /\ result = NoResult

\* A non-variable font takes any coordinates; for a variable font the
\* interface defines the result on the axes' ranges only.
CallNormalizeVariations ==
    /\ call = NoCall
    /\ \E varCoords \in DesignCoords :
         /\ IsVariable(face) => InAxisRange(face, varCoords)
         /\ call' = [op |-> "NormalizeVariations", varCoords |-> varCoords]
         /\ result' = [value |-> NormalizeVariations(face, varCoords)]
    /\ UNCHANGED face

NextVariations ==
    \/ CallNormalizeVariations
    \/ Return

SpecVariations == InitVariations /\ [][NextVariations]_vars

\* ------------------------------------------- NominalGlyph and GlyphExtents

\* A result (GID, bool) of a lookup.
GlyphResult(g, found) == [glyph |-> g, found |-> found]

\* A plausible slip: the not-found signal is folded into the glyph id, so a
\* rune mapped to the notdef glyph reads as not found.
NominalGlyphZeroIsMissing(f, ch) ==
    IF ch \in DOMAIN f.cmap /\ f.cmap[ch] # 0 THEN GlyphResult(f.cmap[ch], TRUE)
    ELSE GlyphResult(0, FALSE)

\* NominalGlyph(ch rune) (GID, bool)
\* The glyph used to represent the rune, or false if not found.
NominalGlyph(f, ch) ==
    IF ch \in DOMAIN f.cmap THEN GlyphResult(f.cmap[ch], TRUE)
    ELSE GlyphResult(0, FALSE)

\* A result (GlyphExtents, bool).
ExtentsResult(e, found) == [extents |-> e, found |-> found]

\* The face holds outline or bitmap data for the glyph.
HasGlyphData(f, glyph) == ValidGlyph(f, glyph) /\ f.glyphs[glyph].kind # "none"

\* type FontExtents: font-wide extents of one text direction.
FontExtentsOf(asc, desc, gap) == [Ascender |-> asc, Descender |-> desc, LineGap |-> gap]

ZeroFontExtents == FontExtentsOf(0, 0, 0)

\* GlyphName(glyph GID) string
\* The name of the glyph, or an empty string if the glyph is invalid or has
\* no name.
GlyphName(f, glyph) ==
    IF ValidGlyph(f, glyph) /\ f.names[glyph].found THEN f.names[glyph].value ELSE ""

\* FontHExtents / FontVExtents (varCoords []float32) (FontExtents, bool)
\* The font extents of one direction, or false if not available; the
\* variation of a variable font applies to the stored values.
FontExtents(f, stored, varCoords) ==
    IF ~stored.found THEN {[extents |-> ZeroFontExtents, found |-> FALSE]}
    ELSE {[extents |-> [stored.value EXCEPT !.Ascender = @ + d], found |-> TRUE] :
             d \in VarDeltas(f, varCoords)}

FontHExtents(f, varCoords) == FontExtents(f, f.hExtents, varCoords)

FontVExtents(f, varCoords) == FontExtents(f, f.vExtents, varCoords)

\* GlyphHOrigin / GlyphVOrigin (glyph GID, varCoords []float32) (x, y int32, found bool)
\* The origin of the glyph for one direction, or false if not available.
GlyphOrigin(f, table, glyph, varCoords) ==
    IF ~ValidGlyph(f, glyph) \/ ~table[glyph].found THEN {[x |-> 0, y |-> 0, found |-> FALSE]}
    ELSE {[x |-> table[glyph].value[1], y |-> table[glyph].value[2] + d, found |-> TRUE] :
             d \in VarDeltas(f, varCoords)}

GlyphHOrigin(f, glyph, varCoords) == GlyphOrigin(f, f.hOrigin, glyph, varCoords)

GlyphVOrigin(f, glyph, varCoords) == GlyphOrigin(f, f.vOrigin, glyph, varCoords)

\* The extents stored with the outline of a glyph.
OutlineExtents(glyph) == GlyphExtentsOf(glyph + 1, 700, 500, 0 - 700)

\* A bitmap strike: the glyph's extents stored for one resolution.
Strike(p) == [ppemX |-> p, ppemY |-> p, extents |-> GlyphExtentsOf(1, p, p, 0 - p)]

\* Strike t is closer than strike s to the requested resolution.
Closer(t, s, xPpem, yPpem) ==
    /\ Abs(t.ppemX - xPpem) <= Abs(s.ppemX - xPpem)
    /\ Abs(t.ppemY - yPpem) <= Abs(s.ppemY - yPpem)
    /\ \/ Abs(t.ppemX - xPpem) < Abs(s.ppemX - xPpem)
       \/ Abs(t.ppemY - yPpem) < Abs(s.ppemY - yPpem)

\* The strikes closest to xPpem and yPpem: those no other strike is closer
\* than.  The interface does not order equally close strikes.
ClosestStrikes(strikes, xPpem, yPpem) ==
    {s \in strikes : \A t \in strikes : ~Closer(t, s, xPpem, yPpem)}

\* A plausible slip: only outlines are consulted, so a bitmap glyph has no
\* extents.
GlyphExtentsOutlineOnly(f, glyph, varCoords, xPpem, yPpem) ==
    IF HasGlyphData(f, glyph) /\ f.glyphs[glyph].kind = "outline"
    THEN {ExtentsResult([OutlineExtents(glyph) EXCEPT !.Width = @ + d], TRUE) :
             d \in VarDeltas(f, varCoords)}
    ELSE {ExtentsResult(ZeroGlyphExtents, FALSE)}

\* GlyphExtents(glyph GID, varCoords []float32, xPpem, yPpem uint16) (GlyphExtents, bool)
\* False if not available; for a bitmap glyph the extents of the closest
\* stored resolution; for an outline the stored extents with the variation
\* applied.  The result is the set of values the call may return.
GlyphExtents(f, glyph, varCoords, xPpem, yPpem) ==
    IF ~HasGlyphData(f, glyph) THEN {ExtentsResult(ZeroGlyphExtents, FALSE)}
    ELSE IF f.glyphs[glyph].kind = "bitmap"
    THEN {ExtentsResult(s.extents, TRUE) :
             s \in ClosestStrikes(f.glyphs[glyph].strikes, xPpem, yPpem)}
    ELSE {ExtentsResult([OutlineExtents(glyph) EXCEPT !.Width = @ + d], TRUE) :
             d \in VarDeltas(f, varCoords)}

\* ------------------------------------------------- glyphs: faces and calls

\* Runes a caller may pass: a letter (U+0041), an unassigned code point
\* (U+0378) and the last scalar value, a noncharacter (U+10FFFF).
Runes == {65, 888, 1114111}

\* Runes the modelled font files may map to a glyph (a font may map any
\* code point, assigned or not).
MappableRunes == {65, 888}

\* Resolutions the modelled bitmap fonts store.
StrikeSizes == {20, 40}

\* Pixel sizes (xPpem, yPpem) a caller may request: nearer to the smaller
\* stored resolution, and half way between the two.
PpemRequests == {<<25, 25>>, <<30, 30>>}

\* The data a font file may hold for one glyph.
GlyphData ==
    {[kind |-> "none", strikes |-> {}], [kind |-> "outline", strikes |-> {}]}
    \cup {[kind |-> "bitmap", strikes |-> {Strike(p) : p \in P}] : P \in SUBSET StrikeSizes \ {{}}}

\* Faces that differ in their character map and glyph data; nothing has
\* been called.
InitGlyphs ==
    /\ \E n \in 1 .. MaxGlyphs, D \in SUBSET MappableRunes, ax \in {<< >>, <<FullAxis>>} :
         \E cm \in [D -> GID], gl \in [0 .. n - 1 -> GlyphData] :
            face = [BaseFace EXCEPT !.numGlyphs = n, !.cmap = cm, !.glyphs = gl, !.axes = ax,
                                    !.hAdvance = [g \in 0 .. n - 1 |-> None],
                                    !.vAdvance = [g \in 0 .. n - 1 |-> None],
                                    !.names = [g \in 0 .. n - 1 |-> None],
                                    !.hOrigin = [g \in 0 .. n - 1 |-> None],
                                    !.vOrigin = [g \in 0 .. n - 1 |-> None]]
    /\ call = NoCall
    /\ result = NoResult

CallNominalGlyph ==
    /\ call = NoCall
    /\ \E ch \in Runes :
         /\ call' = [op |-> "NominalGlyph", ch |-> ch]
         /\ result' = NominalGlyph(face, ch)
    /\ UNCHANGED face

CallGlyphExtents ==
    /\ call = NoCall
    /\ \E glyph \in GID, varCoords \in VarCoords, ppem \in PpemRequests :
         \E r \in GlyphExtents(face, glyph, varCoords, ppem[1], ppem[2]) :
            /\ call' = [op |-> "GlyphExtents", glyph |-> glyph, varCoords |-> varCoords,
                        xPpem |-> ppem[1], yPpem |-> ppem[2]]
            /\ result' = r
    /\ UNCHANGED face

NextGlyphs ==
    \/ CallNominalGlyph
    \/ CallGlyphExtents
    \/ Return

SpecGlyphs == InitGlyphs /\ [][NextGlyphs]_vars

\* ------------------------------------- names, font extents, glyph origins

\* Glyph names, font extents and origins of the modelled font files.
NameValues == {"A"}

FontExtentsValues == {FontExtentsOf(800, 0 - 200, 90)}

OriginValues == {<<0, 0>>, <<500, 880>>}

\* Faces that differ in their names, font extents and glyph origins;
\* nothing has been called.
InitQueries ==
    /\ \E n \in 1 .. MaxGlyphs, ax \in {<< >>, <<FullAxis>>},
          he \in Optional(FontExtentsValues), ve \in Optional(FontExtentsValues) :
         \E nm \in [0 .. n - 1 -> Optional(NameValues)],
            ho \in [0 .. n - 1 -> Optional(OriginValues)],
            vo \in [0 .. n - 1 -> Optional(OriginValues)] :
              face = [BaseFace EXCEPT !.numGlyphs = n, !.axes = ax, !.names = nm,
                                      !.hExtents = he, !.vExtents = ve,
                                      !.hOrigin = ho, !.vOrigin = vo,
                                      !.hAdvance = [g \in 0 .. n - 1 |-> None],
                                      !.vAdvance = [g \in 0 .. n - 1 |-> None],
                                      !.glyphs = NoGlyphData(n)]
    /\ call = NoCall
    /\ result = NoResult

CallGlyphName ==
    /\ call = NoCall
    /\ \E glyph \in GID :
         /\ call' = [op |-> "GlyphName", glyph |-> glyph]
         /\ result' = [value |-> GlyphName(face, glyph)]
    /\ UNCHANGED face

CallFontHExtents ==
    /\ call = NoCall
    /\ \E varCoords \in VarCoords :
         \E r \in FontHExtents(face, varCoords) :
            /\ call' = [op |-> "FontHExtents", varCoords |-> varCoords]
            /\ result' = r
    /\ UNCHANGED face

CallFontVExtents ==
    /\ call = NoCall
    /\ \E varCoords \in VarCoords :
         \E r \in FontVExtents(face, varCoords) :
            /\ call' = [op |-> "FontVExtents", varCoords |-> varCoords]
            /\ result' = r
    /\ UNCHANGED face

CallGlyphHOrigin ==
    /\ call = NoCall
    /\ \E glyph \in GID, varCoords \in VarCoords :
         \E r \in GlyphHOrigin(face, glyph, varCoords) :
            /\ call' = [op |-> "GlyphHOrigin", glyph |-> glyph, varCoords |-> varCoords]
            /\ result' = r
    /\ UNCHANGED face

CallGlyphVOrigin ==
    /\ call = NoCall
    /\ \E glyph \in GID, varCoords \in VarCoords :
         \E r \in GlyphVOrigin(face, glyph, varCoords) :
            /\ call' = [op |-> "GlyphVOrigin", glyph |-> glyph, varCoords |-> varCoords]
            /\ result' = r
    /\ UNCHANGED face

NextQueries ==
    \/ CallGlyphName
    \/ CallFontHExtents
    \/ CallFontVExtents
    \/ CallGlyphHOrigin
    \/ CallGlyphVOrigin
    \/ Return

SpecQueries == InitQueries /\ [][NextQueries]_vars

\* ----------------------------------------------------------- FaceOpentype

\* A GDEF table: absent (a nil Class) or with its glyph classes.
TableGDEF(f) == [Class |-> IF "GDEF" \in f.tables THEN "classes" ELSE Nil]

\* A GSUB or GPOS table: absent (a nil slice of lookups) or with lookups.
TableLookups(f, tag) == [Lookups |-> IF tag \in f.tables THEN <<"lookup">> ELSE Nil]

\* An AAT table (trak, ankr, feat, morx, kern, kerx): the zero value of its
\* struct when absent, else its decoded content.
TableAAT(f, tag) == [Data |-> IF tag \in f.tables THEN tag ELSE Nil]

\* A plausible slip: an absent GSUB or GPOS is given an empty, non-nil slice
\* of lookups.
TablesLayoutEmptySlice(f) ==
    [ GDEF |-> TableGDEF(f),
      Trak |-> TableAAT(f, "trak"),
      Ankr |-> TableAAT(f, "ankr"),
      Feat |-> TableAAT(f, "feat"),
      Morx |-> TableAAT(f, "morx"),
      Kern |-> TableAAT(f, "kern"),
      Kerx |-> TableAAT(f, "kerx"),
      GSUB |-> [Lookups |-> IF "GSUB" \in f.tables THEN <<"lookup">> ELSE << >>],
      GPOS |-> [Lookups |-> IF "GPOS" \in f.tables THEN <<"lookup">> ELSE << >>] ]

\* TablesLayout() TablesLayout
\* All the fields are optional: a font may provide a subset of the tables.
TablesLayout(f) ==
    [ GDEF |-> TableGDEF(f),
      Trak |-> TableAAT(f, "trak"),
      Ankr |-> TableAAT(f, "ankr"),
      Feat |-> TableAAT(f, "feat"),
      Morx |-> TableAAT(f, "morx"),
      Kern |-> TableAAT(f, "kern"),
      Kerx |-> TableAAT(f, "kerx"),
      GSUB |-> TableLookups(f, "GSUB"),
      GPOS |-> TableLookups(f, "GPOS") ]

\* Variations() TableFvar
\* The variations of the font, or an empty table.
Variations(f) == [Axis |-> f.axes]

\* IsGraphite() (*Face, bool)
\* True if the font has Graphite capabilities, unless the face overrides
\* the method to disable them; the face returned is the one the Graphite
\* tables are loaded from.
IsGraphite(f) ==
    IF f.graphite /\ ~f.graphiteDisabled
    THEN [face |-> "self", supported |-> TRUE]
    ELSE [face |-> Nil, supported |-> FALSE]

\* ------------------------------------------------- layout: faces and calls

\* Faces that differ in the layout tables, variation axes and Graphite
\* capabilities of their font file; nothing has been called.
InitLayout ==
    /\ \E T \in SUBSET LayoutTags, gr \in BOOLEAN, off \in BOOLEAN, ax \in {<< >>, <<FullAxis>>} :
         face = [BaseFace EXCEPT !.tables = T, !.graphite = gr, !.graphiteDisabled = off,
                                 !.axes = ax]
    /\ call = NoCall
    /\ result = NoResult

CallTablesLayout ==
    /\ call = NoCall
    /\ call' = [op |-> "TablesLayout"]
    /\ result' = TablesLayout(face)
    /\ UNCHANGED face

CallVariations ==
    /\ call = NoCall
    /\ call' = [op |-> "Variations"]
    /\ result' = Variations(face)
    /\ UNCHANGED face

CallIsGraphite ==
    /\ call = NoCall
    /\ call' = [op |-> "IsGraphite"]
    /\ result' = IsGraphite(face)
    /\ UNCHANGED face

NextLayout ==
    \/ CallTablesLayout
    \/ CallVariations
    \/ CallIsGraphite
    \/ Return

SpecLayout == InitLayout /\ [][NextLayout]_vars

\* ------------------------------------------------------ claims on metrics

IsAdvanceCall == call.op \in {"HorizontalAdvance", "VerticalAdvance"}

\* The stored advance entry the last advance call looked at.
CalledEntry ==
    IF call.op = "HorizontalAdvance" THEN face.hAdvance[call.glyph] ELSE face.vAdvance[call.glyph]

\* The default advance of the direction of the last advance call.
CalledDefault == IF call.op = "HorizontalAdvance" THEN face.hDefault ELSE face.vDefault

\* C1 as stated: HorizontalAdvance and VerticalAdvance return the face's
\* upem, a value >= 0, for a valid glyph without an explicit advance entry,
\* and exactly 0 for a glyph outside the face's glyph range.
C1_AdvanceDefaultIsUpem ==
    IsAdvanceCall =>
        /\ (ValidGlyph(face, call.glyph) /\ ~CalledEntry.found) =>
               (result.value = Upem(face) /\ result.value >= 0)
        /\ ~ValidGlyph(face, call.glyph) => result.value = 0

\* C1 amended: HorizontalAdvance and VerticalAdvance return the face's own
\* default advance of that direction for a valid glyph without an explicit
\* advance entry (the upem is one admissible default, not the required one,
\* and the default need not be >= 0), and exactly 0 for a glyph outside the
\* face's glyph range.
C1_AdvanceDefault ==
    IsAdvanceCall =>
        /\ (ValidGlyph(face, call.glyph) /\ ~CalledEntry.found) =>
               result.value = CalledDefault
        /\ ~ValidGlyph(face, call.glyph) => result.value = 0

\* C1 witness: a valid glyph without advance data was queried on a face
\* whose default advance is not its upem, and the default came back.
C1_Witness ==
    /\ call.op = "HorizontalAdvance"
    /\ ValidGlyph(face, call.glyph)
    /\ ~face.hAdvance[call.glyph].found
    /\ face.hDefault # Upem(face)
    /\ result.value = face.hDefault

\* C2: a font that provides no explicit units-per-em value makes Upem()
\* return exactly 1000.
C2_UpemFallback ==
    (call.op = "Upem" /\ ~face.upem.found) => result.value = 1000

\* C2 witness: Upem() was called on a face without explicit units-per-em.
C2_Witness ==
    /\ call.op = "Upem"
    /\ ~face.upem.found
    /\ result.value = 1000

\* --------------------------------------------------- claims on variations

IsNormalizeCall == call.op = "NormalizeVariations"

\* C3 as stated: on a variable font, for every axis, the declared default
\* normalizes to 0.0, the declared minimum to -1.0 and the declared maximum
\* to +1.0, and every in-range value lands in [-1, 1].
C3_EndpointsAlways ==
    (IsNormalizeCall /\ IsVariable(face)) =>
        \A i \in 1 .. Len(face.axes) :
            /\ call.varCoords[i] = face.axes[i].def => result.value[i] = 0
            /\ call.varCoords[i] = face.axes[i].min => result.value[i] = 0 - Unit
            /\ call.varCoords[i] = face.axes[i].max => result.value[i] = Unit
            /\ 0 - Unit <= result.value[i] /\ result.value[i] <= Unit

\* C3 amended: on a variable font, for every axis, the declared default
\* normalizes to 0.0, the declared minimum to -1.0 when it lies below the
\* default and the declared maximum to +1.0 when it lies above the default
\* (an end of the range that coincides with the default normalizes to 0.0),
\* and every in-range value lands in [-1, 1].
C3_Endpoints ==
    (IsNormalizeCall /\ IsVariable(face)) =>
        \A i \in 1 .. Len(face.axes) :
            /\ call.varCoords[i] = face.axes[i].def => result.value[i] = 0
            /\ (call.varCoords[i] = face.axes[i].min /\ face.axes[i].min < face.axes[i].def)
                   => result.value[i] = 0 - Unit
            /\ (call.varCoords[i] = face.axes[i].max /\ face.axes[i].max > face.axes[i].def)
                   => result.value[i] = Unit
            /\ 0 - Unit <= result.value[i] /\ result.value[i] <= Unit

\* C3 witness: a variable font with an axis min < default < max and a
\* second axis whose minimum is its default was normalized at the maximum
\* of the first and the minimum of the second.
C3_Witness ==
    /\ IsNormalizeCall
    /\ Len(face.axes) = 2
    /\ face.axes[1].min < face.axes[1].def /\ face.axes[1].def < face.axes[1].max
    /\ face.axes[2].min = face.axes[2].def /\ face.axes[2].def < face.axes[2].max
    /\ call.varCoords[1] = face.axes[1].max
    /\ call.varCoords[2] = face.axes[2].min
    /\ result.value = <<Unit, 0>>

\* C4: on a non-variable font NormalizeVariations is the identity on every
\* coordinate sequence, and normalizing its result again changes nothing.
C4_NonVariableIdentity ==
    (IsNormalizeCall /\ ~IsVariable(face)) =>
        /\ result.value = call.varCoords
        /\ NormalizeVariations(face, result.value) = result.value

\* C4 witness: a non-empty coordinate sequence was normalized on a
\* non-variable font and came back unchanged.
C4_Witness ==
    /\ IsNormalizeCall
    /\ ~IsVariable(face)
    /\ Len(call.varCoords) > 0
    /\ result.value = call.varCoords

\* ------------------------------------------------------- claims on glyphs

\* C6: NominalGlyph returns found = false for a rune without a mapping and
\* found = true with the mapped glyph for a mapped rune; it has a result for
\* every rune a caller passes; a rune mapped to glyph 0 (notdef) yields
\* (0, true), which differs from the result for an unmapped rune.
C6_NominalGlyph ==
    /\ \A ch \in Runes :
         /\ NominalGlyph(face, ch).found \in BOOLEAN
         /\ NominalGlyph(face, ch).glyph \in GID
    /\ call.op = "NominalGlyph" =>
         /\ call.ch \notin DOMAIN face.cmap => ~result.found
         /\ call.ch \in DOMAIN face.cmap =>
              /\ result.found
              /\ result.glyph = face.cmap[call.ch]
              /\ \A other \in Runes \ DOMAIN face.cmap : result # NominalGlyph(face, other)

\* C6 witness: a rune mapped to the notdef glyph was looked up and came
\* back as (0, true).
C6_Witness ==
    /\ call.op = "NominalGlyph"
    /\ call.ch \in DOMAIN face.cmap
    /\ face.cmap[call.ch] = 0
    /\ result = [glyph |-> 0, found |-> TRUE]

\* The glyph of the last call is what NominalGlyph returns for some mapped
\* rune.
FromNominalGlyph ==
    \E ch \in DOMAIN face.cmap :
        NominalGlyph(face, ch).found /\ NominalGlyph(face, ch).glyph = call.glyph

\* The extents records the face stores for the glyph of the last call (an
\* outline's record up to the variation of its width).
StoredExtents ==
    IF face.glyphs[call.glyph].kind = "bitmap"
    THEN {s.extents : s \in face.glyphs[call.glyph].strikes}
    ELSE {[OutlineExtents(call.glyph) EXCEPT !.Width = @ + d] : d \in {0 - 10, 0, 10}}

\* C10: for a glyph obtained from NominalGlyph for a mapped rune,
\* GlyphExtents returns found = true exactly if the face has outline or
\* bitmap data for it; with found = true the record is one stored record in
\* full, with found = false it is the zero record.
C10_RoundTrip ==
    (call.op = "GlyphExtents" /\ FromNominalGlyph) =>
        /\ result.found <=>
               (call.glyph < face.numGlyphs /\ face.glyphs[call.glyph].kind \in {"outline", "bitmap"})
        /\ result.found => result.extents \in StoredExtents
        /\ ~result.found => result.extents = ZeroGlyphExtents

\* C10 witness: the glyph a rune maps to has bitmap data only, and its
\* extents were found.
C10_Witness ==
    /\ call.op = "GlyphExtents"
    /\ FromNominalGlyph
    /\ call.glyph < face.numGlyphs
    /\ face.glyphs[call.glyph].kind = "bitmap"
    /\ result.found
    /\ result.extents \in StoredExtents

\* ------------------------------------------------------- claims on layout

\* The face has none of the GDEF, GSUB, GPOS and AAT tables.
NoLayoutTables == face.tables \cap LayoutTags = {}

\* Every sub-table of the returned TablesLayout tests as empty under its
\* own rule: a nil Class for GDEF, a nil slice of lookups for GSUB and
\* GPOS, the zero value for the AAT tables.
AllTablesEmpty ==
    /\ result.GDEF.Class = Nil
    /\ result.GSUB.Lookups = Nil
    /\ result.GPOS.Lookups = Nil
    /\ \A t \in {result.Trak, result.Ankr, result.Feat, result.Morx, result.Kern, result.Kerx} :
         t.Data = Nil

\* C7 as stated: for a face with none of the layout tables, TablesLayout()
\* returns a value whose every sub-table tests as empty and IsGraphite()
\* returns supported = false.
C7_NoTablesNoGraphite ==
    NoLayoutTables =>
        /\ call.op = "TablesLayout" => AllTablesEmpty
        /\ call.op = "IsGraphite" => ~result.supported

\* C7 amended: for a face with none of the layout tables, TablesLayout()
\* returns a value whose every sub-table tests as empty; IsGraphite()
\* returns supported = false exactly if the font has no Graphite
\* capabilities or the face disables them, which the absence of the layout
\* tables does not decide.
C7_NoTables ==
    NoLayoutTables =>
        /\ call.op = "TablesLayout" => AllTablesEmpty
        /\ call.op = "IsGraphite" =>
               (~result.supported <=> (~face.graphite \/ face.graphiteDisabled))

\* C7 witness: TablesLayout() was called on a face without any layout
\* table, a Graphite-only font, and every sub-table came back empty.
C7_Witness ==
    /\ NoLayoutTables
    /\ face.graphite /\ ~face.graphiteDisabled
    /\ call.op = "TablesLayout"
    /\ AllTablesEmpty

====
